---- MODULE Spec2Model ----
(***************************************************************************)
(* A model of foreman, the job-execution agent: the job registry           *)
(* (tracking.rs), the port pool (network.rs), the Docker executor          *)
(* (executors/docker.rs) and the tasks wired together in main.rs.          *)
(***************************************************************************)
EXTENDS Integers, Sequences, FiniteSets, TLC

(***************************************************************************)
(* Bounds of the model.                                                    *)
(***************************************************************************)
\* the wall clock runs over 0..MaxTime
MaxTime == 2
\* progress values are 0..MaxProgress (0 stands for 0.0)
MaxProgress == 1
\* the port pool holds the PoolSize ports that end at EndPort
PoolSize == 2
\* capacity of the job tracker channel (mpsc::channel(32) in main.rs, scaled)
TrackerCap == 1
\* capacity of the job executor channel (mpsc::channel(32) in main.rs, scaled)
ExecutorCap == 1
\* HTTP requests being handled at the same time
MaxRequests == 1
\* the longest Vec<Job> a poll returns
MaxBatch == 1
\* settings.core.max_concurrent_jobs (default 12, scaled)
MaxConcurrentJobs == 1
\* SpecGet: the requests handled at a time, and the tracker channel's capacity
GetRequests == 2
GetCap == 2
\* SpecPoller: the longest Vec<Job> a poll returns
PollerBatch == 2
\* SpecManager: capacity of the job executor channel (32 in main.rs, scaled)
ManagerCap == 2
\* settings.core.job_completion_timeout (default 10000 ms, scaled to ticks)
JobCompletionTimeout == 1
\* settings.core.job_removal_timeout (default 5000 ms, scaled to ticks)
JobRemovalTimeout == 0

\* DockerJob.id of the jobs the control server hands out
JobIds == {"j1", "j2"}
\* the ids SpecTracker inserts (registry entries are independent of each other)
TrackerIds == {"j1"}
Time == 0..MaxTime
ProgressValues == 0..MaxProgress

(***************************************************************************)
(* tracking.rs: JobStatus, TrackedJob, JobTracker.                         *)
(* An Option<T> is the set of its values: {} is None, {x} is Some(x).      *)
(***************************************************************************)
JobStatus == {"Pending", "Running", "Completed", "Stopped", "Finished"}

None == {}
Some(x) == {x}

\* JobTracker::insert: HashMap::insert of a fresh TrackedJob under the job's id
insert(reg, id, t) ==
    [k \in DOMAIN reg \cup {id} |->
        IF k = id
        THEN [status |-> "Pending", progress |-> 0, start_time |-> t,
              completed_time |-> None, stopped_time |-> None,
              finished_time |-> None]
        ELSE reg[k]]

\* a get_job that does not find Finished jobs
get_job_unfinished(reg, id) ==
    IF id \in DOMAIN reg /\ reg[id].status # "Finished"
    THEN Some(reg[id]) ELSE None

\* JobTracker::get_job
get_job(reg, id) == IF id \in DOMAIN reg THEN Some(reg[id]) ELSE None

\* an update_status that sets the status and the progress and stamps no time
stamp_no_time(job, status, progress, t) ==
    [job EXCEPT
        !.status   = status,
        !.progress = IF progress # None THEN CHOOSE p \in progress : TRUE ELSE @]

\* The body of `if let Some(tracked_job)` in JobTracker::update_status
stamp(job, status, progress, t) ==
    [job EXCEPT
        !.completed_time = IF status = "Completed" THEN Some(t) ELSE @,
        !.stopped_time   = IF status = "Stopped"   THEN Some(t) ELSE @,
        !.finished_time  = IF status = "Finished"  THEN Some(t) ELSE @,
        !.status         = status,
        !.progress       = IF progress # None THEN CHOOSE p \in progress : TRUE ELSE @]

\* JobTracker::update_status: the registry it leaves
update_status(reg, id, status, progress, t) ==
    IF id \in DOMAIN reg
    THEN [reg EXCEPT ![id] = stamp(reg[id], status, progress, t)]
    ELSE reg

\* JobTracker::update_status: the Result it returns
update_status_result(reg, id) == IF id \in DOMAIN reg THEN "Ok" ELSE "Err"

\* JobTracker::get_job_ids_by_status (a Vec in HashMap order: its set of ids)
get_job_ids_by_status(reg, job_status) ==
    {id \in DOMAIN reg : reg[id].status = job_status}

get_completed_job_ids(reg) == get_job_ids_by_status(reg, "Completed")
get_running_job_ids(reg) == get_job_ids_by_status(reg, "Running")
get_stopped_job_ids(reg) == get_job_ids_by_status(reg, "Stopped")

\* a get_timed_out_job_ids for which no job has timed out
get_timed_out_job_ids_none(reg, t) == {}

\* JobTracker::get_timed_out_job_ids at time t
get_timed_out_job_ids(reg, t) ==
    {id \in DOMAIN reg : /\ reg[id].status = "Running"
                         /\ t - reg[id].start_time > JobCompletionTimeout}

\* a get_stopped_and_expired_job_ids that does not wait for the removal timeout
get_stopped_and_expired_job_ids_at_once(reg, t) ==
    get_job_ids_by_status(reg, "Stopped")

\* JobTracker::get_stopped_and_expired_job_ids at time t
get_stopped_and_expired_job_ids(reg, t) ==
    {id \in DOMAIN reg :
        /\ reg[id].status = "Stopped"
        /\ \E st \in reg[id].stopped_time : t - st > JobRemovalTimeout}

(***************************************************************************)
(* network.rs: PortManager.                                                *)
(***************************************************************************)
\* the default end_port of PortManager::new, the largest u16
EndPort == 65535
\* the default start_port of PortManager::new, scaled to a pool of PoolSize ports
StartPort == EndPort - PoolSize + 1

\* the value of `port` when the while loop of reserve_port ends; -1 when
\* `port += 1` overflows u16 in a build that checks overflow, while a build
\* that does not check wraps to 0 and goes on
RECURSIVE scan(_, _, _)
scan(reserved, port, checks) ==
    IF port \notin reserved THEN port
    ELSE IF port + 1 > 65535
         THEN IF checks THEN -1 ELSE scan(reserved, (port + 1) % 65536, checks)
         ELSE scan(reserved, port + 1, checks)

\* PortManager::reserve_port: its result, the port and the reserved set it leaves
reserve_port(reserved, start, end, checks) ==
    LET port == scan(reserved, start, checks) IN
    IF port = -1
    THEN [result |-> "Panic", port |-> None, reserved |-> reserved]
    ELSE IF port > end
    THEN [result |-> "OutOfPorts", port |-> None, reserved |-> reserved]
    ELSE [result |-> "Ok", port |-> Some(port), reserved |-> reserved \cup {port}]

\* a release_port that releases whatever it is given
release_port_any(reserved, port) ==
    [result |-> "Ok", reserved |-> reserved \ {port}]

\* PortManager::release_port
release_port(reserved, port) ==
    IF port \notin reserved
    THEN [result |-> "CanNotReleaseUnreservedPort", reserved |-> reserved]
    ELSE [result |-> "Ok", reserved |-> reserved \ {port}]

(***************************************************************************)
(* State.                                                                  *)
(***************************************************************************)
VARIABLES
    jobs,       \* tracking.rs:66 JobTracker.jobs, a function on the inserted ids
    now,        \* tracking.rs:83 SystemTime::now()
    last,       \* main.rs:181-200 the command the tracker served in the last step
    ever        \* history: the stamped statuses each id has had in the registry

tvars == <<jobs, now, last, ever>>

VARIABLES
    start_port,       \* network.rs:17 PortManager.start_port
    end_port,         \* network.rs:18 PortManager.end_port
    reserved_ports,   \* network.rs:19 PortManager.reserved_ports
    port_job,         \* history: the job id each reserved port was reserved for
    containers,       \* the Docker daemon: job id -> the container "job-<id>"
    executor_alive,   \* main.rs:150 the job manager task has not panicked
    overflow_checks,  \* the build checks integer overflow (debug) or wraps (release)
    last_run          \* history: the path the last DockerExecutor::run took

evars == <<start_port, end_port, reserved_ports, port_job, containers,
           executor_alive, overflow_checks, last_run>>

VARIABLES
    running,          \* main.rs:56 the AtomicBool a termination signal clears
    tracker_alive,    \* main.rs:177 the job tracking task has not panicked
    tracker_queue,    \* main.rs:62 the commands in the job tracker channel
    tracker_cap,      \* main.rs:62 the capacity of the job tracker channel
    executor_queue,   \* main.rs:59 the commands in the job executor channel
    poller,           \* main.rs:68 the poller task: its place and locals
    http,             \* main.rs:372 the requests being handled: place and locals
    got               \* history: the ids a GET handler has fetched a job for

avars == <<running, tracker_alive, tracker_queue, tracker_cap, executor_queue,
           poller, http, got>>

VARIABLES
    remove_on_terminate,  \* settings.rs:93 remove_stopped_containers_on_terminate
    reaper                \* main.rs:240 the job lifecycle task: place and locals

lvars == <<remove_on_terminate, reaper>>

vars == <<tvars, evars, avars, lvars>>

(***************************************************************************)
(* The tracker task of main.rs serving one command.                        *)
(***************************************************************************)
NoCommand == [op |-> "None", id |-> "", status |-> "", result |-> "Ok"]

\* the statuses update_status stamps a time for
Stamped == {"Completed", "Stopped", "Finished"}

Record(reg) == [id \in JobIds |->
                  IF id \in DOMAIN reg
                  THEN ever[id] \cup ({reg[id].status} \cap Stamped)
                  ELSE ever[id]]

\* JobTrackerCommand::Insert
ServeInsert(id) ==
    /\ jobs' = insert(jobs, id, now)
    /\ last' = [op |-> "Insert", id |-> id, status |-> "", result |-> "Ok"]
    /\ ever' = Record(jobs')
    /\ UNCHANGED now

\* JobTrackerCommand::UpdateStatus
ServeUpdateStatus(id, status, progress) ==
    /\ jobs' = update_status(jobs, id, status, progress, now)
    /\ last' = [op |-> "UpdateStatus", id |-> id, status |-> status,
                result |-> update_status_result(jobs, id)]
    /\ ever' = Record(jobs')
    /\ UNCHANGED now

\* SystemTime advancing
Tick ==
    /\ now < MaxTime
    /\ now' = now + 1
    /\ last' = NoCommand
    /\ UNCHANGED <<jobs, ever>>

\* JobTracker::new
TrackerInit ==
    /\ jobs = <<>>
    /\ now = 0
    /\ last = NoCommand
    /\ ever = [id \in JobIds |-> {}]

(***************************************************************************)
(* executors/docker.rs: DockerExecutor, and the job manager task of        *)
(* main.rs that owns it.                                                   *)
(***************************************************************************)
NoContainer == [state |-> "absent", host_port |-> None]
NoRun == [path |-> "", port |-> None, releases |-> 0]

\* what the Docker daemon can answer during DockerExecutor::run
RunOutcomes == {"image_exists_err", "create_err", "start_err", "inspect_err",
                "stop_err", "remove_err",
                "HEALTHY", "UNHEALTHY", "STARTING", "NONE"}

\* the outcomes in which run got as far as stop_and_remove_container
HealthStatus == {"HEALTHY", "UNHEALTHY", "STARTING", "NONE"}

\* the container "job-<id>" as run leaves it
container_after(old, outcome, port) ==
    CASE outcome = "create_err"  -> old
      [] outcome = "start_err"   -> [state |-> "created", host_port |-> port]
      [] outcome = "inspect_err" -> [state |-> "running", host_port |-> port]
      [] outcome = "stop_err"    -> [state |-> "running", host_port |-> port]
      [] outcome = "remove_err"  -> [state |-> "exited", host_port |-> port]
      [] OTHER                   -> NoContainer

\* the release_port calls of run: one, after stop_and_remove_container
\* returned Ok, on each of the four health arms and on the normal path
releases_of(outcome) == IF outcome \in HealthStatus THEN 1 ELSE 0

\* DockerExecutor::run for job id, the daemon answering `outcome`
run(id, always_pull, outcome) ==
    LET r == reserve_port(reserved_ports, start_port, end_port, overflow_checks)
        p == CHOOSE x \in r.port : TRUE
    IN  IF outcome = "image_exists_err"
        THEN /\ ~always_pull
             /\ last_run' = [path |-> outcome, port |-> None,
                             releases |-> 0]
             /\ UNCHANGED <<reserved_ports, port_job, containers, executor_alive>>
        ELSE IF r.result = "Panic"
        THEN /\ executor_alive' = FALSE
             /\ last_run' = [path |-> "panic", port |-> None,
                             releases |-> 0]
             /\ UNCHANGED <<reserved_ports, port_job, containers>>
        ELSE IF r.result = "OutOfPorts"
        THEN /\ last_run' = [path |-> "OutOfPorts", port |-> None,
                             releases |-> 0]
             /\ UNCHANGED <<reserved_ports, port_job, containers, executor_alive>>
        ELSE \* create_container fails when the name "job-<id>" is taken
             /\ containers[id].state # "absent" => outcome = "create_err"
             /\ containers' = [containers EXCEPT
                                 ![id] = container_after(@, outcome, r.port)]
             /\ reserved_ports' =
                   IF releases_of(outcome) = 1
                   THEN release_port(r.reserved, p).reserved
                   ELSE r.reserved
             /\ port_job' = [q \in reserved_ports' |->
                               IF q = p THEN id ELSE port_job[q]]
             /\ last_run' = [path |-> outcome, port |-> r.port,
                             releases |-> releases_of(outcome)]
             /\ UNCHANGED executor_alive

\* job_manager_task: JobExecutorCommand::Execute
DoExecute(id, outcomes) ==
    /\ executor_alive
    /\ Cardinality(reserved_ports) <= PoolSize
    /\ \E always_pull \in BOOLEAN, outcome \in outcomes :
           run(id, always_pull, outcome)
    /\ UNCHANGED <<start_port, end_port, overflow_checks>>

\* DockerExecutor::stop and DockerExecutor::remove: the Result they return
stop_result(container) == IF container.state = "running" THEN "Ok" ELSE "Err"
remove_result(container) ==
    IF container.state \in {"created", "exited"} THEN "Ok" ELSE "Err"

\* a job manager task that unwraps the Result
error_unwrapped(alive, result) == alive /\ result = "Ok"

\* job_manager_task: `if let Err(e) = executor.stop(..).await { error!(..) }`
\* logs the error, and the task goes on to its next recv
error_logged(alive, result) == alive

\* job_manager_task: JobExecutorCommand::Stop. DockerExecutor::stop stops the
\* container "job-<id>"; an error (no such container, not running) is logged
DoStop(id) ==
    /\ executor_alive
    /\ containers' = [containers EXCEPT
                        ![id].state = IF @ = "running" THEN "exited" ELSE @]
    /\ executor_alive' = error_logged(executor_alive,
                                      stop_result(containers[id]))
    /\ UNCHANGED <<start_port, end_port, reserved_ports, port_job,
                   overflow_checks, last_run>>

\* job_manager_task: JobExecutorCommand::Remove. DockerExecutor::remove removes
\* the container "job-<id>" and releases its host port if still reserved; an
\* error (no such container, container running) is logged
DoRemove(id) ==
    /\ executor_alive
    /\ LET c == containers[id]
           removed == c.state \in {"created", "exited"}
           freed == IF removed THEN c.host_port \cap reserved_ports ELSE {}
       IN  /\ containers' = [containers EXCEPT
                               ![id] = IF removed THEN NoContainer ELSE @]
           /\ reserved_ports' = reserved_ports \ freed
           /\ port_job' = [q \in reserved_ports' |-> port_job[q]]
    /\ executor_alive' = error_logged(executor_alive,
                                      remove_result(containers[id]))
    /\ UNCHANGED <<start_port, end_port, overflow_checks, last_run>>

\* DockerExecutor::new: PortManager::new(None, None)
ExecutorInit ==
    /\ start_port = StartPort
    /\ end_port = EndPort
    /\ reserved_ports = {}
    /\ port_job = <<>>
    /\ containers = [id \in JobIds |-> NoContainer]
    /\ executor_alive = TRUE
    /\ last_run = NoRun

\* the build profile: overflow checks are on in a debug build, off in release
DebugBuild == overflow_checks = TRUE
ReleaseBuild == overflow_checks = FALSE

(***************************************************************************)
(* main.rs: the channels, the job tracking task, the job manager task, the *)
(* poller task and the HTTP handlers, each an interleaved process.  A      *)
(* process moves from one await to the next in one step.                   *)
(***************************************************************************)
\* a JobTrackerCommand in the channel: `from` is the slot of the handler that
\* holds the oneshot receiver (0: the poller, or no responder); `dropped` is
\* set once that receiver has been dropped
Command(op, id, status, progress, from) ==
    [op |-> op, id |-> id, status |-> status, progress |-> progress,
     from |-> from, dropped |-> FALSE]

Idle == [pc |-> "idle", kind |-> "", id |-> "", header |-> None,
         hdr_status |-> "", progress |-> 0, job |-> None, live |-> FALSE,
         snap |-> "", forward |-> "", reply |-> "", code |-> 0,
         applied |-> FALSE]

\* the Vec<Job> a poll can return
Batches == UNION {[1..n -> JobIds] : n \in 0..MaxBatch}

\* the Vec<Job> a poll can return in SpecPoller
LongBatches == UNION {[1..n -> JobIds] : n \in 0..PollerBatch}

\* a loop over the batch that ends after its first job
rest_none(batch) == <<>>

\* `for job in jobs`: the jobs left once the first has been handled
rest(batch) == Tail(batch)

\* a poller that does not look at the flag
stop_ignored(flag) == FALSE

\* `if !running2.load(Ordering::SeqCst)` at the top of the poller's loop
stop_requested(flag) == ~flag

\* JobTracker::count_running_jobs
count_running_jobs(reg) == Cardinality(get_job_ids_by_status(reg, "Running"))

\* update_job_status without the look at the receive: always Ok
update_job_status_unchecked(reply) == "Ok"

\* update_job_status: Err only when the oneshot sender was dropped without a
\* reply; the Result the tracker sent is not looked at
update_job_status_result(reply) == IF reply = "RecvError" THEN "Err" ELSE "Ok"

\* str::to_uppercase on the header values of the model
to_uppercase(s) ==
    CASE s = "running"   -> "RUNNING"
      [] s = "completed" -> "COMPLETED"
      [] OTHER           -> s

\* a parse that takes every string for a status
from_str_lenient(s) == "Pending"

\* JobStatus::from_str: the five names in any case, else an error
from_str(s) ==
    CASE to_uppercase(s) = "PENDING"   -> "Pending"
      [] to_uppercase(s) = "RUNNING"   -> "Running"
      [] to_uppercase(s) = "COMPLETED" -> "Completed"
      [] to_uppercase(s) = "STOPPED"   -> "Stopped"
      [] to_uppercase(s) = "FINISHED"  -> "Finished"
      [] OTHER                         -> "Err"

\* the PUT handler's status: headers.get("x-foreman-job-status") parsed, the
\* missing header an error as well
put_status(header) ==
    IF header = None THEN "Err" ELSE from_str(CHOOSE h \in header : TRUE)

\* a forward that is taken to have succeeded whatever the client returned
forward_unchecked(resp) == TRUE

\* the PUT handler's look at the forward: `if let Ok(resp) = resp`
forward_ok(resp) == resp = "Ok"

\* a GET handler that returns the job whatever its status
get_match_any(status) == "serve"

\* the GET handler's `match *tracked_job.status()`
get_match(status) ==
    CASE status = "Completed" -> "refuse"
      [] status = "Pending"   -> "update"
      [] OTHER                -> "serve"

\* the PUT handler's progress: the header parsed as f64, else 0.0
put_progress(header) == IF header = None THEN 0 ELSE CHOOSE p \in header : TRUE

\* the admission check of the poller: no poll in this round
at_maximum(count) == count > MaxConcurrentJobs

\* a handler or task panicking on a failed send or receive
Dead(h) == [Idle EXCEPT !.pc = "dead", !.kind = h.kind]

\* the response of a handler: what the request carried is dropped with it
Respond(h, code) == [h EXCEPT !.pc = "done", !.code = code, !.job = None,
                              !.live = FALSE, !.reply = "",
                              !.hdr_status = "", !.progress = 0]

\* the job tracking task panics in `resp.send(..).expect(..)`: the channel
\* and its commands are dropped, and every waiting receiver gets RecvError
AfterPanic(h) ==
    [s \in DOMAIN h |->
        CASE h[s].pc = "wait_job"    -> Dead(h[s])
          [] h[s].pc = "wait_update" -> [h[s] EXCEPT !.pc = "have_reply",
                                                      !.reply = "RecvError"]
          [] OTHER                   -> h[s]]

\* a job tracking task that replies over a channel it has to wait on: with
\* the requester gone it waits for ever, the command still in hand
TrackerPanic_waits(h) ==
    UNCHANGED <<tracker_alive, tracker_queue, http, poller, reaper>>

TrackerPanic(h) ==
    /\ tracker_alive' = FALSE
    /\ tracker_queue' = <<>>
    /\ http' = AfterPanic(h)
    /\ poller' = IF poller.pc = "await_count"
                 THEN [poller EXCEPT !.pc = "dead"] ELSE poller
    /\ reaper' = IF reaper.pc \in {"await_ids", "await_update"}
                 THEN [reaper EXCEPT !.pc = "dead"] ELSE reaper

\* the sender of the lifecycle task's commands (job_tracker_tx3)
ReaperId == 0 - 1

\* the five id queries of the lifecycle task
QueryOps == {"GetCompletedJobIds", "GetTimedOutJobIds",
             "GetStoppedAndExpiredJobIds", "GetRunningJobIds",
             "GetStoppedJobIds"}

\* job_tracking_task: the Vec<String> sent back for an id query
query_ids(op, reg, t) ==
    CASE op = "GetCompletedJobIds" -> get_completed_job_ids(reg)
      [] op = "GetTimedOutJobIds" -> get_timed_out_job_ids(reg, t)
      [] op = "GetStoppedAndExpiredJobIds" ->
             get_stopped_and_expired_job_ids(reg, t)
      [] op = "GetRunningJobIds" -> get_running_job_ids(reg)
      [] op = "GetStoppedJobIds" -> get_stopped_job_ids(reg)

\* the Arc<Mutex<TrackedJob>> clone a handler holds: an Insert replaces the
\* map's Arc, so the handler is left with the old job
Detached(h, id) ==
    [s \in DOMAIN h |->
        IF h[s].live /\ h[s].id = id THEN [h[s] EXCEPT !.live = FALSE] ELSE h[s]]

\* job_tracking_task: one command received and served
TrackerServe ==
    /\ tracker_alive
    /\ tracker_queue # <<>>
    /\ LET c == Head(tracker_queue) IN
       CASE c.op = "Insert" ->
                /\ jobs' = insert(jobs, c.id, now)
                /\ http' = Detached(http, c.id)
                /\ tracker_queue' = Tail(tracker_queue)
                /\ UNCHANGED <<tracker_alive, poller, reaper>>
         [] c.op = "GetJob" ->
                /\ UNCHANGED jobs
                /\ IF c.dropped
                   THEN TrackerPanic(http)
                   ELSE /\ http' = [http EXCEPT
                                      ![c.from].pc = "have_job",
                                      ![c.from].job = get_job(jobs, c.id),
                                      ![c.from].live = (c.id \in DOMAIN jobs)]
                        /\ tracker_queue' = Tail(tracker_queue)
                        /\ UNCHANGED <<tracker_alive, poller, reaper>>
         [] c.op = "UpdateStatus" ->
                /\ jobs' = update_status(jobs, c.id, c.status, c.progress, now)
                /\ LET h == [s \in DOMAIN http |->
                               IF http[s].live /\ http[s].id = c.id
                                  /\ c.id \in DOMAIN jobs
                               THEN [http[s] EXCEPT !.job = Some(jobs'[c.id])]
                               ELSE http[s]]
                   IN IF c.from = ReaperId
                      THEN /\ http' = h
                           /\ reaper' = [reaper EXCEPT
                                           !.pc = "loop",
                                           !.todo = @ \ {c.id},
                                           !.cur = ""]
                           /\ tracker_queue' = Tail(tracker_queue)
                           /\ UNCHANGED <<tracker_alive, poller>>
                      ELSE IF c.dropped
                      THEN TrackerPanic(h)
                      ELSE /\ http' = [h EXCEPT
                                  ![c.from].pc = "have_reply",
                                  ![c.from].reply = update_status_result(jobs, c.id),
                                  ![c.from].applied =
                                      IF c.id \in DOMAIN jobs
                                      THEN jobs'[c.id].status = c.status
                                      ELSE FALSE]
                           /\ tracker_queue' = Tail(tracker_queue)
                           /\ UNCHANGED <<tracker_alive, poller, reaper>>
         [] c.op = "CountRunningJobs" ->
                /\ poller' = [poller EXCEPT !.pc = "admission",
                                            !.count = count_running_jobs(jobs)]
                /\ tracker_queue' = Tail(tracker_queue)
                /\ UNCHANGED <<jobs, http, tracker_alive, reaper>>
         [] c.op \in QueryOps ->
                /\ LET ids == query_ids(c.op, jobs, now) IN
                   reaper' = [reaper EXCEPT
                                !.pc = "loop",
                                !.todo = ids,
                                !.running_len =
                                    IF c.op = "GetRunningJobIds"
                                    THEN Cardinality(ids) ELSE @,
                                !.stopped_len =
                                    IF c.op = "GetStoppedJobIds"
                                    THEN Cardinality(ids) ELSE @]
                /\ tracker_queue' = Tail(tracker_queue)
                /\ UNCHANGED <<jobs, http, tracker_alive, poller>>
    /\ UNCHANGED <<now, last, ever, evars, running, tracker_cap,
                   remove_on_terminate, executor_queue, got>>

\* a channel that hands over the newest command first
Send_newest_first(c) ==
    /\ tracker_alive
    /\ Len(tracker_queue) < tracker_cap
    /\ tracker_queue' = <<c>> \o tracker_queue

\* tx.send(command).await on the job tracker channel, with room in the channel
Send(c) ==
    /\ tracker_alive
    /\ Len(tracker_queue) < tracker_cap
    /\ tracker_queue' = Append(tracker_queue, c)

(***************************************************************************)
(* The poller task.                                                        *)
(***************************************************************************)
PollerStart == [pc |-> "top", count |-> 0, batch |-> <<>>]

\* top of the loop: the running check, then count_running_jobs is asked
PollerTop ==
    /\ poller.pc = "top"
    /\ IF stop_requested(running)
       THEN poller' = [poller EXCEPT !.pc = "stopped"] /\ UNCHANGED tracker_queue
       ELSE IF ~tracker_alive
       THEN poller' = [poller EXCEPT !.pc = "dead"] /\ UNCHANGED tracker_queue
       ELSE /\ Send(Command("CountRunningJobs", "", "", None, 0))
            /\ poller' = [poller EXCEPT !.pc = "await_count"]
    /\ UNCHANGED <<tvars, evars, running, tracker_cap, lvars, tracker_alive, executor_queue, http, got>>

\* the admission check on the count received
PollerAdmission ==
    /\ poller.pc = "admission"
    /\ poller' = IF at_maximum(poller.count)
                 THEN PollerStart
                 ELSE [poller EXCEPT !.pc = "polling"]
    /\ UNCHANGED <<tvars, evars, running, tracker_cap, lvars, tracker_alive, tracker_queue,
                   executor_queue, http, got>>

\* the poll of the control server: an error, or a Vec<Job>
Poll(batches) ==
    /\ poller.pc = "polling"
    /\ \/ poller' = PollerStart
       \/ \E batch \in batches :
            poller' = IF batch = <<>> THEN PollerStart
                      ELSE [poller EXCEPT !.pc = "insert", !.batch = batch]
    /\ UNCHANGED <<tvars, evars, running, tracker_cap, lvars, tracker_alive, tracker_queue,
                   executor_queue, http, got>>

PollerPoll == Poll(Batches)

\* the poll in SpecPoller, where it returns up to PollerBatch jobs
PollerPollLong == Poll(LongBatches)

\* for job in jobs: Insert is sent to the tracker
PollerSendInsert ==
    /\ poller.pc = "insert"
    /\ IF ~tracker_alive
       THEN poller' = [poller EXCEPT !.pc = "dead"] /\ UNCHANGED tracker_queue
       ELSE /\ Send(Command("Insert", Head(poller.batch), "", None, 0))
            /\ poller' = [poller EXCEPT !.pc = "execute"]
    /\ UNCHANGED <<tvars, evars, running, tracker_cap, lvars, tracker_alive, executor_queue, http, got>>

\* for job in jobs: Execute is sent to the executor
PollerSendExecute ==
    /\ poller.pc = "execute"
    /\ IF ~executor_alive
       THEN poller' = [poller EXCEPT !.pc = "dead"] /\ UNCHANGED executor_queue
       ELSE /\ Len(executor_queue) < ExecutorCap
            /\ executor_queue' = Append(executor_queue,
                                   [op |-> "Execute", id |-> Head(poller.batch)])
            /\ poller' = IF rest(poller.batch) = <<>> THEN PollerStart
                         ELSE [poller EXCEPT !.pc = "insert",
                                             !.batch = rest(poller.batch)]
    /\ UNCHANGED <<tvars, evars, running, tracker_cap, lvars, tracker_alive, tracker_queue, http, got>>

\* the Ctrl-C handler
CtrlC ==
    /\ running
    /\ running' = FALSE
    /\ UNCHANGED <<tvars, evars, tracker_cap, lvars, tracker_alive, tracker_queue, executor_queue,
                   poller, http, got>>

(***************************************************************************)
(* The job lifecycle task.  One pass of its loop goes through the phases   *)
(* completed, timed_out, expired and, once the flag is cleared, running    *)
(* and stopped; each phase asks the tracker for ids and then, id by id,    *)
(* sends a command to the executor and an UpdateStatus to the tracker.     *)
(***************************************************************************)
ReaperStart == [pc |-> "query", phase |-> "completed", todo |-> {},
                cur |-> "", running_len |-> 0, stopped_len |-> 0]

\* the id query a phase starts with
phase_query(phase) ==
    CASE phase = "completed" -> "GetCompletedJobIds"
      [] phase = "timed_out" -> "GetTimedOutJobIds"
      [] phase = "expired"   -> "GetStoppedAndExpiredJobIds"
      [] phase = "running"   -> "GetRunningJobIds"
      [] phase = "stopped"   -> "GetStoppedJobIds"

\* a lifecycle task that sends Remove in every phase
phase_command_remove(phase) == "Remove"

\* the JobExecutorCommand a phase sends for each id
phase_command(phase) ==
    IF phase \in {"expired", "stopped"} THEN "Remove" ELSE "Stop"

\* the JobStatus a phase sets once its command is sent
phase_status(phase) ==
    IF phase \in {"expired", "stopped"} THEN "Finished" ELSE "Stopped"

\* a drain that never removes
remove_never(setting) == FALSE

\* `if settings.core.remove_stopped_containers_on_terminate`
remove_allowed(setting) == setting

\* `if !running3.load(Ordering::SeqCst)`
terminating(flag) == ~flag

\* `if running_job_ids_length == 0 && stopped_job_ids_length == 0 { break }`
exit_loop(running_job_ids_length, stopped_job_ids_length) ==
    running_job_ids_length = 0 /\ stopped_job_ids_length = 0

\* the start of a phase, and of the next pass of the loop
StartPhase(r, phase) == [r EXCEPT !.pc = "query", !.phase = phase,
                                  !.todo = {}, !.cur = ""]
NextPass(r) == [ReaperStart EXCEPT !.running_len = 0, !.stopped_len = 0]

\* the end of the shutdown branch: break, or continue
EndOfDrain(r, stopped_len) ==
    IF exit_loop(r.running_len, stopped_len)
    THEN [NextPass(r) EXCEPT !.pc = "exited", !.phase = "stopped"]
    ELSE NextPass(r)

\* get_job_ids_helper: the query of the phase is sent
ReaperQuery ==
    /\ reaper.pc = "query"
    /\ IF ~tracker_alive
       THEN reaper' = [reaper EXCEPT !.pc = "dead"] /\ UNCHANGED tracker_queue
       ELSE /\ Send(Command(phase_query(reaper.phase), "", "", None, ReaperId))
            /\ reaper' = [reaper EXCEPT !.pc = "await_ids"]
    /\ UNCHANGED <<tvars, evars, running, tracker_cap, remove_on_terminate,
                   tracker_alive, executor_queue, poller, http, got>>

\* for job_id in ids: the Stop or Remove command is sent to the executor
ReaperSendCommand ==
    /\ reaper.pc = "loop"
    /\ \E id \in reaper.todo :
         IF ~executor_alive
         THEN reaper' = [reaper EXCEPT !.pc = "dead"]
              /\ UNCHANGED executor_queue
         ELSE /\ Len(executor_queue) < ExecutorCap
              /\ executor_queue' =
                     Append(executor_queue,
                            [op |-> phase_command(reaper.phase), id |-> id])
              /\ reaper' = [reaper EXCEPT !.pc = "update", !.cur = id]
    /\ UNCHANGED <<tvars, evars, running, tracker_cap, remove_on_terminate,
                   tracker_alive, tracker_queue, poller, http, got>>

\* for job_id in ids: update_job_status(job_id, status, None) is sent
ReaperSendUpdate ==
    /\ reaper.pc = "update"
    /\ IF ~tracker_alive
       THEN reaper' = [reaper EXCEPT !.pc = "dead"] /\ UNCHANGED tracker_queue
       ELSE /\ Send(Command("UpdateStatus", reaper.cur,
                            phase_status(reaper.phase), None, ReaperId))
            /\ reaper' = [reaper EXCEPT !.pc = "await_update"]
    /\ UNCHANGED <<tvars, evars, running, tracker_cap, remove_on_terminate,
                   tracker_alive, executor_queue, poller, http, got>>

\* the ids of a phase are used up: the next phase, the look at the flag, the
\* sleep before the next pass, or the end of the shutdown branch
ReaperAdvance ==
    /\ reaper.pc = "loop"
    /\ reaper.todo = {}
    /\ reaper' =
         CASE reaper.phase = "completed" -> StartPhase(reaper, "timed_out")
           [] reaper.phase = "timed_out" -> StartPhase(reaper, "expired")
           [] reaper.phase = "expired" ->
                  IF terminating(running)
                  THEN StartPhase(reaper, "running")
                  ELSE NextPass(reaper)
           [] reaper.phase = "running" ->
                  IF remove_allowed(remove_on_terminate)
                  THEN StartPhase(reaper, "stopped")
                  ELSE EndOfDrain(reaper, 0)
           [] reaper.phase = "stopped" ->
                  EndOfDrain(reaper, reaper.stopped_len)
    /\ UNCHANGED <<tvars, evars, running, tracker_cap, remove_on_terminate,
                   tracker_alive, tracker_queue, executor_queue, poller,
                   http, got>>

(***************************************************************************)
(* The job manager task.                                                   *)
(***************************************************************************)
\* In Spec the Docker daemon answers every call of run with success and the
\* container reports healthy; its failures are the subject of SpecExecutor.
ExecutorServe ==
    /\ executor_queue # <<>>
    /\ LET c == Head(executor_queue) IN
       CASE c.op = "Execute" -> DoExecute(c.id, {"HEALTHY"})
         [] c.op = "Stop"    -> DoStop(c.id)
         [] c.op = "Remove"  -> DoRemove(c.id)
    /\ executor_queue' = IF executor_alive' THEN Tail(executor_queue) ELSE <<>>
    /\ UNCHANGED <<tvars, running, tracker_cap, lvars, tracker_alive, tracker_queue, poller, http, got>>

(***************************************************************************)
(* The HTTP handlers.                                                      *)
(***************************************************************************)
\* a handler sends UpdateStatus, or waits for room in the channel
SendUpdate(s, h, status, progress) ==
    IF ~tracker_alive
    THEN http' = [http EXCEPT ![s] = Dead(h)] /\ UNCHANGED tracker_queue
    ELSE IF Len(tracker_queue) < tracker_cap
    THEN /\ Send(Command("UpdateStatus", h.id, status, Some(progress), s))
         /\ http' = [http EXCEPT ![s] = [h EXCEPT !.pc = "wait_update"]]
    ELSE /\ http' = [http EXCEPT ![s] = [h EXCEPT !.pc = "send_update"]]
         /\ UNCHANGED tracker_queue

\* a request arrives and get_job sends GetJob
HttpStart(s, kind, id, header, hdr_status, progress) ==
    /\ http[s].pc = "idle"
    /\ LET h == [Idle EXCEPT !.kind = kind, !.id = id, !.header = header,
                             !.hdr_status = hdr_status, !.progress = progress]
       IN IF ~tracker_alive
          THEN http' = [http EXCEPT ![s] = Dead(h)] /\ UNCHANGED tracker_queue
          ELSE /\ Send(Command("GetJob", id, "", None, s))
               /\ http' = [http EXCEPT ![s] = [h EXCEPT !.pc = "wait_job"]]
    /\ UNCHANGED <<tvars, evars, running, tracker_cap, lvars, tracker_alive, executor_queue, poller,
                   got>>

\* GET /job/:job_id arrives
HttpGet ==
    \E s \in DOMAIN http, id \in JobIds : HttpStart(s, "GET", id, None, "", 0)

\* the statuses a job's container reports in X-Foreman-Job-Status in Spec,
\* those the StatusHeaders parse to (SpecTracker serves UpdateStatus with
\* every status)
ContainerStatuses == {"Running", "Completed"}

\* the X-Foreman-Job-Status headers of the model: none, a name in upper
\* case, a name in lower case, and a string that is no status name
StatusHeaders == {None, Some("RUNNING"), Some("completed"), Some("bogus")}

\* PUT /job/:job_id arrives with a status header that parses
HttpPut ==
    \E s \in DOMAIN http, id \in JobIds, status_header \in StatusHeaders,
       header \in {None} \cup {Some(p) : p \in ProgressValues} :
        /\ put_status(status_header) # "Err"
        /\ HttpStart(s, "PUT", id, status_header, put_status(status_header),
                     put_progress(header))

\* PUT /job/:job_id arrives without a status header that parses: 400
HttpPutBadHeader ==
    /\ \E s \in DOMAIN http, id \in JobIds, status_header \in StatusHeaders :
        /\ http[s].pc = "idle"
        /\ put_status(status_header) = "Err"
        /\ http' = [http EXCEPT
                      ![s] = Respond([Idle EXCEPT !.kind = "PUT", !.id = id,
                                                 !.header = status_header], 400)]
    /\ UNCHANGED <<tvars, evars, running, tracker_cap, lvars, tracker_alive, tracker_queue,
                   executor_queue, poller, got>>

\* the GET handler with the job get_job returned: it locks and clones the
\* TrackedJob, matches on the status and, for Pending, sends UpdateStatus
HttpGetJob ==
    /\ \E s \in DOMAIN http :
        /\ http[s].pc = "have_job"
        /\ http[s].kind = "GET"
        /\ IF http[s].job = None
           THEN /\ http' = [http EXCEPT ![s] = Respond(@, 404)]
                /\ UNCHANGED <<tracker_queue, got>>
           ELSE LET tracked_job == CHOOSE j \in http[s].job : TRUE
                    h == [http[s] EXCEPT !.snap = tracked_job.status,
                                         !.job = None, !.live = FALSE]
                IN /\ got' = got \cup {h.id}
                   /\ CASE get_match(tracked_job.status) = "refuse" ->
                              /\ http' = [http EXCEPT ![s] = Respond(h, 403)]
                              /\ UNCHANGED tracker_queue
                        [] get_match(tracked_job.status) = "update" ->
                              SendUpdate(s, h, "Running", 0)
                        [] OTHER ->
                              /\ http' = [http EXCEPT ![s] = Respond(h, 200)]
                              /\ UNCHANGED tracker_queue
    /\ UNCHANGED <<tvars, evars, running, tracker_cap, lvars, tracker_alive, executor_queue, poller>>

\* the PUT handler with the job get_job returned: 404 when there is none,
\* else the forward to the callback URL returns `resp` and, when that is Ok,
\* UpdateStatus is sent
HttpPutJob ==
    /\ \E s \in DOMAIN http :
        /\ http[s].pc = "have_job"
        /\ http[s].kind = "PUT"
        /\ IF http[s].job = None
           THEN /\ http' = [http EXCEPT ![s] = Respond(@, 404)]
                /\ UNCHANGED tracker_queue
           ELSE \E resp \in {"Ok", "Err"} :
                LET h == [http[s] EXCEPT !.job = None, !.live = FALSE,
                                         !.forward = resp]
                IN IF forward_ok(resp)
                   THEN SendUpdate(s, h, h.hdr_status, h.progress)
                   ELSE /\ http' = [http EXCEPT ![s] = Respond(h, 400)]
                        /\ UNCHANGED tracker_queue
    /\ UNCHANGED <<tvars, evars, running, tracker_cap, lvars, tracker_alive, executor_queue, poller,
                   got>>

\* a handler whose send of UpdateStatus waited for room
HttpSendUpdate ==
    /\ \E s \in DOMAIN http :
        /\ http[s].pc = "send_update"
        /\ ~tracker_alive \/ Len(tracker_queue) < tracker_cap
        /\ IF http[s].kind = "GET"
           THEN SendUpdate(s, http[s], "Running", 0)
           ELSE SendUpdate(s, http[s], http[s].hdr_status, http[s].progress)
    /\ UNCHANGED <<tvars, evars, running, tracker_cap, lvars, tracker_alive, executor_queue, poller,
                   got>>

\* the handler's answer once update_job_status has returned
answer(result) == IF result = "Err" THEN 500 ELSE 200

HttpReply ==
    /\ \E s \in DOMAIN http :
        /\ http[s].pc = "have_reply"
        /\ http' = [http EXCEPT ![s] =
                      Respond(@, answer(update_job_status_result(@.reply)))]
    /\ UNCHANGED <<tvars, evars, running, tracker_cap, lvars, tracker_alive, tracker_queue,
                   executor_queue, poller, got>>

\* the response is written, or the panicked handler's connection is closed
HttpClose ==
    /\ \E s \in DOMAIN http :
        /\ http[s].pc \in {"done", "dead"}
        /\ http' = [http EXCEPT ![s] = Idle]
    /\ UNCHANGED <<tvars, evars, running, tracker_cap, lvars, tracker_alive, tracker_queue,
                   executor_queue, poller, got>>

\* the client goes away and the handler future is dropped at an await: the
\* oneshot receiver of the command it sent is dropped with it
HttpCancel ==
    /\ \E s \in DOMAIN http :
        /\ \/ http[s].pc \in {"wait_job", "wait_update", "send_update"}
           \/ http[s].pc = "have_job" /\ http[s].kind = "PUT"
        /\ http' = [http EXCEPT ![s] = Idle]
        /\ tracker_queue' = [i \in 1..Len(tracker_queue) |->
                               IF tracker_queue[i].from = s
                               THEN [tracker_queue[i] EXCEPT !.dropped = TRUE]
                               ELSE tracker_queue[i]]
    /\ UNCHANGED <<tvars, evars, running, tracker_cap, lvars, tracker_alive, executor_queue, poller,
                   got>>

\* main: the flag, the channels of the given capacity and the tasks are set
\* up; `requests` is the number of requests the server handles at a time
Agent(requests, cap) ==
    /\ running = TRUE
    /\ tracker_alive = TRUE
    /\ tracker_queue = <<>>
    /\ tracker_cap = cap
    /\ executor_queue = <<>>
    /\ poller = PollerStart
    /\ http = [s \in 1..requests |-> Idle]
    /\ got = {}
    /\ remove_on_terminate = TRUE
    /\ reaper = ReaperStart

AgentInit == Agent(MaxRequests, TrackerCap)

(***************************************************************************)
(* SpecTracker: the registry under the commands main.rs sends it.          *)
(* Insert comes from the poller for any polled id; UpdateStatus comes from *)
(* the PUT handler (any status, Some(progress), for an id GetJob found),   *)
(* from the GET handler (Running, Some(0.0)) and from the lifecycle task   *)
(* (Stopped or Finished, None, for an id a query returned).                *)
(***************************************************************************)
PollerInsert == \E id \in TrackerIds : ServeInsert(id)

PutUpdate ==
    \E id \in DOMAIN jobs, status \in JobStatus,
       header \in {None} \cup {Some(p) : p \in ProgressValues} :
        ServeUpdateStatus(id, status, Some(put_progress(header)))

GetUpdate == \E id \in DOMAIN jobs : ServeUpdateStatus(id, "Running", Some(0))

LifecycleUpdate ==
    \E id \in DOMAIN jobs, status \in {"Stopped", "Finished"} :
        ServeUpdateStatus(id, status, None)

TrackerNext ==
    \/ PollerInsert /\ UNCHANGED <<evars, avars, lvars>>
    \/ PutUpdate /\ UNCHANGED <<evars, avars, lvars>>
    \/ GetUpdate /\ UNCHANGED <<evars, avars, lvars>>
    \/ LifecycleUpdate /\ UNCHANGED <<evars, avars, lvars>>
    \/ Tick /\ UNCHANGED <<evars, avars, lvars>>

InitTracker == TrackerInit /\ ExecutorInit /\ ReleaseBuild /\ AgentInit

SpecTracker == InitTracker /\ [][TrackerNext]_vars

(***************************************************************************)
(* SpecExecutor: the job manager task under the commands main.rs sends it: *)
(* Execute from the poller for any polled id (the control server may hand  *)
(* out an id again), Stop and Remove from the lifecycle task.              *)
(***************************************************************************)
Execute == \E id \in JobIds : DoExecute(id, RunOutcomes)
Stop == \E id \in JobIds : DoStop(id)
Remove == \E id \in JobIds : DoRemove(id)

ExecutorNext ==
    \/ Execute /\ UNCHANGED <<tvars, avars, lvars>>
    \/ Stop /\ UNCHANGED <<tvars, avars, lvars>>
    \/ Remove /\ UNCHANGED <<tvars, avars, lvars>>

InitExecutor ==
    TrackerInit /\ ExecutorInit /\ (DebugBuild \/ ReleaseBuild) /\ AgentInit

SpecExecutor == InitExecutor /\ [][ExecutorNext]_vars

(***************************************************************************)
(* Spec: the poller, the job tracking task, the job manager task and the   *)
(* HTTP handlers of main.rs running together.                              *)
(***************************************************************************)
Next ==
    \/ PollerTop
    \/ PollerAdmission
    \/ PollerPoll
    \/ PollerSendInsert
    \/ PollerSendExecute
    \/ CtrlC
    \/ TrackerServe
    \/ ExecutorServe
    \/ HttpGet
    \/ HttpPut
    \/ HttpPutBadHeader
    \/ HttpGetJob
    \/ HttpPutJob
    \/ HttpSendUpdate
    \/ HttpReply
    \/ HttpClose
    \/ HttpCancel

Init == TrackerInit /\ ExecutorInit /\ ReleaseBuild /\ AgentInit

Spec == Init /\ [][Next]_vars

(***************************************************************************)
(* SpecHttp: the agent while no termination signal arrives.                *)
(***************************************************************************)
HttpNext ==
    \/ PollerTop
    \/ PollerAdmission
    \/ PollerPoll
    \/ PollerSendInsert
    \/ PollerSendExecute
    \/ TrackerServe
    \/ ExecutorServe
    \/ HttpGet
    \/ HttpPut
    \/ HttpPutBadHeader
    \/ HttpGetJob
    \/ HttpPutJob
    \/ HttpSendUpdate
    \/ HttpReply
    \/ HttpClose
    \/ HttpCancel

SpecHttp == Init /\ [][HttpNext]_vars

(***************************************************************************)
(* SpecPoller: the poller with the job tracking task and the job manager   *)
(* task, and the termination signal; no container makes a request.         *)
(* SpecPollerFair adds the scheduling of the tasks: tokio runs a task that *)
(* can take a step, and the poll of the control server returns (the        *)
(* client has a timeout, main.rs:82).                                      *)
(***************************************************************************)
PollerNext ==
    \/ PollerTop
    \/ PollerAdmission
    \/ PollerPollLong
    \/ PollerSendInsert
    \/ PollerSendExecute
    \/ CtrlC
    \/ TrackerServe
    \/ ExecutorServe

SpecPoller == Init /\ [][PollerNext]_vars

SpecPollerFair ==
    /\ Init
    /\ [][PollerNext]_vars
    /\ WF_vars(PollerTop)
    /\ WF_vars(PollerAdmission)
    /\ WF_vars(PollerPollLong)
    /\ WF_vars(PollerSendInsert)
    /\ WF_vars(PollerSendExecute)
    /\ WF_vars(TrackerServe)
    /\ WF_vars(ExecutorServe)

(***************************************************************************)
(* SpecReaper: the job lifecycle task with the job tracking task, the job  *)
(* manager task, the clock and the Ctrl-C handler.  It starts from a       *)
(* registry the poller and the handlers have filled: each id is absent or  *)
(* tracked with one of the statuses a container can be left in.            *)
(***************************************************************************)
LeftStatuses == {"absent", "Pending", "Running", "Completed", "Stopped"}

\* the registry after insert and update_status have run for the ids of st
Registry(st) ==
    LET put(reg, id) ==
            IF st[id] = "absent" THEN reg
            ELSE IF st[id] = "Pending" THEN insert(reg, id, 0)
            ELSE update_status(insert(reg, id, 0), id, st[id], None, 0)
    IN put(put(<<>>, "j1"), "j2")

InitReaper ==
    /\ \E st \in [JobIds -> LeftStatuses] :
          /\ jobs = Registry(st)
          /\ ever = [id \in JobIds |-> {st[id]} \cap Stamped]
    /\ now = 0
    /\ last = NoCommand
    /\ ExecutorInit
    /\ ReleaseBuild
    /\ running = TRUE
    /\ tracker_alive = TRUE
    /\ tracker_queue = <<>>
    /\ tracker_cap = TrackerCap
    /\ executor_queue = <<>>
    /\ poller = PollerStart
    /\ http = <<>>
    /\ got = {}
    /\ remove_on_terminate \in BOOLEAN
    /\ reaper = ReaperStart

ReaperNext ==
    \/ ReaperQuery
    \/ ReaperSendCommand
    \/ ReaperSendUpdate
    \/ ReaperAdvance
    \/ TrackerServe
    \/ ExecutorServe
    \/ CtrlC
    \/ Tick /\ UNCHANGED <<evars, avars, lvars>>

SpecReaper == InitReaper /\ [][ReaperNext]_vars

\* the three tasks are scheduled fairly; the clock and Ctrl-C are not
SpecReaperFair ==
    /\ InitReaper
    /\ [][ReaperNext]_vars
    /\ WF_vars(ReaperQuery)
    /\ WF_vars(ReaperSendCommand)
    /\ WF_vars(ReaperSendUpdate)
    /\ WF_vars(ReaperAdvance)
    /\ WF_vars(TrackerServe)
    /\ WF_vars(ExecutorServe)

\* SystemTime advancing, as a step of SpecReaper
ClockTick == Tick /\ UNCHANGED <<evars, avars, lvars>>

\* the three tasks are scheduled fairly and time passes
SpecReaperClock ==
    /\ InitReaper
    /\ [][ReaperNext]_vars
    /\ WF_vars(ReaperQuery)
    /\ WF_vars(ReaperSendCommand)
    /\ WF_vars(ReaperSendUpdate)
    /\ WF_vars(ReaperAdvance)
    /\ WF_vars(TrackerServe)
    /\ WF_vars(ExecutorServe)
    /\ WF_vars(ClockTick)

(***************************************************************************)
(* SpecUpdate: tracking::update_job_status as a function of its            *)
(* arguments.  A caller holds a sender of the job tracker channel and      *)
(* calls the helper for any job id, tracked or not, while Insert commands  *)
(* arrive for the TrackerIds; the caller answers as the handlers do.       *)
(***************************************************************************)
\* JobTrackerCommand::Insert sent for a job of the TrackerIds
CallInsert ==
    /\ \E id \in TrackerIds : Send(Command("Insert", id, "", None, 0))
    /\ UNCHANGED <<tvars, evars, running, tracker_cap, lvars, tracker_alive,
                   executor_queue, poller, http, got>>

\* update_job_status(job_id, status, Some(progress), tx) is called
CallUpdate ==
    /\ \E s \in DOMAIN http, id \in JobIds, status \in ContainerStatuses,
          progress \in ProgressValues :
          /\ http[s].pc = "idle"
          /\ SendUpdate(s, [Idle EXCEPT !.kind = "CALL", !.id = id,
                                        !.hdr_status = status,
                                        !.progress = progress],
                        status, progress)
    /\ UNCHANGED <<tvars, evars, running, tracker_cap, lvars, tracker_alive,
                   executor_queue, poller, got>>

UpdateNext ==
    \/ CallInsert
    \/ CallUpdate
    \/ HttpSendUpdate
    \/ TrackerServe
    \/ HttpReply
    \/ HttpClose

SpecUpdate == Init /\ [][UpdateNext]_vars

(***************************************************************************)
(* SpecGet: the GET handlers of several containers at once, with the       *)
(* poller, the job tracking task and the job manager task; a client may    *)
(* go away before its answer.                                              *)
(***************************************************************************)
GetNext ==
    \/ PollerTop
    \/ PollerAdmission
    \/ PollerPoll
    \/ PollerSendInsert
    \/ PollerSendExecute
    \/ TrackerServe
    \/ ExecutorServe
    \/ HttpGet
    \/ HttpGetJob
    \/ HttpSendUpdate
    \/ HttpReply
    \/ HttpClose
    \/ HttpCancel

InitGet ==
    TrackerInit /\ ExecutorInit /\ ReleaseBuild /\ Agent(GetRequests, GetCap)

SpecGet == InitGet /\ [][GetNext]_vars

(***************************************************************************)
(* Claims about the registry, checked under SpecTracker.                   *)
(***************************************************************************)
\* the status diagram of the job state machine: the successors of each status
Successors == {<<"Pending", "Running">>, <<"Running", "Completed">>,
               <<"Completed", "Stopped">>, <<"Stopped", "Finished">>,
               <<"Running", "Stopped">>}

\* the step just taken served UpdateStatus for id
UpdateServed(id) == last'.op = "UpdateStatus" /\ last'.id = id

\* the step just taken served Insert for id
InsertServed(id) == last'.op = "Insert" /\ last'.id = id

\* C2: Finished is absorbing: no UpdateStatus served for a job whose status
\* is Finished changes its status.
C2_FinishedAbsorbing ==
    [][\A id \in DOMAIN jobs :
        (jobs[id].status = "Finished" /\ UpdateServed(id))
            => jobs'[id].status = "Finished"]_vars

\* C3: an UpdateStatus whose status is not a successor of the job's current
\* status in the diagram returns an error and leaves the job as it was.
C3_IllegalTransitionRejected ==
    [][\A id \in DOMAIN jobs :
        (UpdateServed(id) /\ <<jobs[id].status, last'.status>> \notin Successors)
            => (last'.result = "Err" /\ jobs'[id] = jobs[id])]_vars

\* C4: an Insert for an id already in the registry leaves its entry (status,
\* progress and the four times) exactly as it was.
C4_InsertIdempotent ==
    [][\A id \in DOMAIN jobs : InsertServed(id) => jobs'[id] = jobs[id]]_vars

\* C5: in every reachable state each of completed_time, stopped_time and
\* finished_time is set iff the job has at some point had that status.
C5_StampIffEver ==
    \A id \in DOMAIN jobs :
        /\ (jobs[id].completed_time # None) <=> ("Completed" \in ever[id])
        /\ (jobs[id].stopped_time # None) <=> ("Stopped" \in ever[id])
        /\ (jobs[id].finished_time # None) <=> ("Finished" \in ever[id])

\* the step just taken served the UpdateStatus of a PUT that carried no
\* X-Foreman-Job-Progress header (or one that does not parse)
PutWithoutProgress ==
    \E id \in DOMAIN jobs, status \in JobStatus :
        ServeUpdateStatus(id, status, Some(put_progress(None)))

\* C13: the UpdateStatus of a PUT without a progress header leaves the
\* progress recorded for the job as it was.
C13_AbsentProgressKept ==
    [][\A id \in DOMAIN jobs :
        (PutWithoutProgress /\ UpdateServed(id))
            => jobs'[id].progress = jobs[id].progress]_vars

(***************************************************************************)
(* Claims about the executor, checked under SpecExecutor.                  *)
(***************************************************************************)
\* C6: every run that reserved a port has released that port exactly once
\* when it returns, on every path it can take.
C6_ReserveReleasedOnce ==
    last_run.port # None => last_run.releases = 1

\* the ports reserved on behalf of job id
PortsOf(id) == {q \in reserved_ports : port_job[q] = id}

\* C7: no job id has two host ports reserved for it, and a job whose tracked
\* status is Stopped or Finished has none.
C7_OnePortPerJob ==
    \A id \in JobIds :
        /\ Cardinality(PortsOf(id)) <= 1
        /\ (id \in DOMAIN jobs /\ jobs[id].status \in {"Stopped", "Finished"})
               => PortsOf(id) = {}

\* C20: when run has returned for a container that started and is healthy,
\* the container is running, and its host port is still reserved: run has
\* not released it.
C20_ExecuteLeavesContainerRunning ==
    last_run.path = "HEALTHY"
        => /\ last_run.releases = 0
           /\ last_run.port \subseteq reserved_ports
           /\ \E id \in JobIds : /\ containers[id].state = "running"
                                 /\ containers[id].host_port = last_run.port

\* C28: an UpdateStatus to Stopped for a job that is Stopped already leaves
\* the job as it is: status, progress and stopped_time, hence the time at
\* which the job expires.
C28_StoppedAgainKept ==
    [][\A id \in DOMAIN jobs :
          (/\ last'.op = "UpdateStatus"
           /\ last'.id = id
           /\ last'.status = "Stopped"
           /\ jobs[id].status = "Stopped")
             => jobs'[id] = jobs[id]]_vars

(***************************************************************************)
(* Claims about the agent, checked under SpecHttp.                         *)
(***************************************************************************)
\* C1: in every reachable state the number of tracked jobs whose status is
\* Running is at most max_concurrent_jobs.
C1_RunningWithinMaximum ==
    Cardinality(get_running_job_ids(jobs)) <= MaxConcurrentJobs

\* C8: a poller round polls, and sends Insert and Execute, only when the
\* running count its admission check observed is below max_concurrent_jobs.
C8_NoPollAtMaximum ==
    poller.pc \in {"polling", "insert", "execute"}
        => poller.count < MaxConcurrentJobs

\* C9: a job whose tracked status is Running has had a GET /job/:job_id
\* served for it.
C9_RunningWasFetched ==
    \A id \in DOMAIN jobs : jobs[id].status = "Running" => id \in got

(***************************************************************************)
(* Claims about the GET handler, checked under SpecGet.                    *)
(***************************************************************************)
\* a GET handler has answered `code` for a job it read as Pending
AnsweredPending(s, code) ==
    /\ http[s].pc = "done"
    /\ http[s].kind = "GET"
    /\ http[s].snap = "Pending"
    /\ http[s].code = code

\* C10: when GET /job/:job_id has answered 200 for a job it read as Pending,
\* the tracker has applied the handler's update to Running before the answer;
\* when the update was not applied the answer is not 200.
C10_OkAfterUpdateApplied ==
    \A s \in DOMAIN http : AnsweredPending(s, 200) => http[s].applied

\* a 200 for a Pending job has been answered with the update applied
C10_Witness ==
    \E s \in DOMAIN http : AnsweredPending(s, 200) /\ http[s].applied

(***************************************************************************)
(* Claims about the PUT handler, checked under SpecHttp.                   *)
(***************************************************************************)
\* the step just taken sent an UpdateStatus whose reply goes to handler s
UpdateSentBy(s) ==
    /\ Len(tracker_queue') = Len(tracker_queue) + 1
    /\ tracker_queue'[Len(tracker_queue')].op = "UpdateStatus"
    /\ tracker_queue'[Len(tracker_queue')].from = s

\* the step just taken changed neither the registry nor the tracker channel
TrackerUntouched == jobs' = jobs /\ tracker_queue' = tracker_queue

\* C11: a PUT handler sends UpdateStatus only once its forward to the
\* callback URL has returned Ok; when the forward returns an error the
\* handler answers 400 in that step, sends nothing to the tracker and leaves
\* the registry as it is.
C11_ForwardBeforeUpdate ==
    [][\A s \in DOMAIN http :
        http'[s].kind = "PUT" =>
            /\ UpdateSentBy(s) => http'[s].forward = "Ok"
            /\ (http'[s].forward = "Err" /\ http[s].forward # "Err")
                   => /\ http'[s].pc = "done"
                      /\ http'[s].code = 400
                      /\ TrackerUntouched
            /\ (http'[s].forward = "Err" /\ http[s].forward = "Err")
                   => http'[s] = http[s]]_vars

\* a PUT whose forward failed has been answered 400
C11_Witness ==
    \E s \in DOMAIN http :
        /\ http[s].pc = "done"
        /\ http[s].kind = "PUT"
        /\ http[s].forward = "Err"
        /\ http[s].code = 400

\* the five status names of X-Foreman-Job-Status
StatusNames == {"PENDING", "RUNNING", "COMPLETED", "STOPPED", "FINISHED"}

\* the header is there and is one of the five names, in any case
ValidStatusHeader(header) ==
    /\ header # None
    /\ to_uppercase(CHOOSE h \in header : TRUE) \in StatusNames

\* C12: a PUT whose status header is missing or is no status name is
\* answered 400 before anything is sent, forwarded or changed; a PUT for an
\* id that is not in the registry gets no job from the tracker and is answered
\* 404, nothing forwarded and nothing changed.
C12_BadPutChangesNothing ==
    [][\A s \in DOMAIN http :
        http'[s].kind = "PUT" =>
            /\ (http'[s].pc \notin {"idle", "dead"}
                    /\ ~ValidStatusHeader(http'[s].header))
                   => /\ http'[s].pc = "done"
                      /\ http'[s].code = 400
                      /\ http'[s].forward = ""
                      /\ http[s].pc \in {"idle", "done"}
                      /\ http[s].pc = "idle" => TrackerUntouched
            /\ (http[s].pc = "wait_job" /\ http'[s].pc = "have_job"
                    /\ http[s].id \notin DOMAIN jobs)
                   => http'[s].job = None /\ jobs' = jobs
            /\ (http[s].pc = "have_job" /\ http[s].job = None
                    /\ http'[s].pc \notin {"have_job", "idle"})
                   => /\ http'[s].pc = "done"
                      /\ http'[s].code = 404
                      /\ http'[s].forward = ""
                      /\ TrackerUntouched]_vars

\* a PUT with a header that is no status name has been answered 400
C12_Witness ==
    \E s \in DOMAIN http :
        /\ http[s].pc = "done"
        /\ http[s].kind = "PUT"
        /\ http[s].header = Some("bogus")
        /\ http[s].code = 400

(***************************************************************************)
(* Claims about the GET handler, checked under SpecHttp.                   *)
(***************************************************************************)
\* handler s has answered `code` in the step just taken, and that step left
\* the registry and the tracker channel alone
AnswersUntouched(s, code) ==
    /\ http'[s].pc = "done"
    /\ http'[s].code = code
    /\ TrackerUntouched

\* handler s has sent UpdateStatus(Running, Some(0.0)) for its job in the
\* step just taken, or waits for room in the channel, or found it closed
SendsRunning(s) ==
    \/ /\ UpdateSentBy(s)
       /\ LET c == tracker_queue'[Len(tracker_queue')] IN
             c.id = http[s].id /\ c.status = "Running" /\ c.progress = Some(0)
       /\ jobs' = jobs
    \/ http'[s].pc \in {"send_update", "dead"} /\ TrackerUntouched

\* C14: the tracker answers GetJob with no job exactly for an id that is not
\* in the registry; the GET handler then answers 404, and 403 for a
\* Completed job, changing nothing; for a Pending job it sends
\* UpdateStatus(Running, 0.0) and for any other it answers 200, changing
\* nothing.
C14_GetAnswers ==
    [][\A s \in DOMAIN http :
        http[s].kind = "GET" =>
            /\ (http[s].pc = "wait_job" /\ http'[s].pc = "have_job")
                   => /\ (http'[s].job = None) <=> (http[s].id \notin DOMAIN jobs)
                      /\ jobs' = jobs
            /\ (http[s].pc = "have_job" /\ http'[s].pc # "have_job")
                   => IF http[s].job = None
                      THEN AnswersUntouched(s, 404)
                      ELSE LET status == (CHOOSE j \in http[s].job : TRUE).status
                           IN CASE status = "Completed" -> AnswersUntouched(s, 403)
                                [] status = "Pending"   -> SendsRunning(s)
                                [] OTHER                -> AnswersUntouched(s, 200)
            /\ (http[s].pc = "send_update" /\ http'[s].pc \notin {"send_update", "idle"})
                   => SendsRunning(s)]_vars

\* a GET for a Completed job has been answered 403
C14_Witness ==
    \E s \in DOMAIN http :
        /\ http[s].pc = "done"
        /\ http[s].kind = "GET"
        /\ http[s].snap = "Completed"
        /\ http[s].code = 403

(***************************************************************************)
(* Claims about GetJob, checked under SpecGet.                             *)
(***************************************************************************)
\* C15: the job a handler holds from GetJob is a value: no command the
\* tracker serves afterwards changes what the handler sees through it.
C15_GetJobIsCopy ==
    [][\A s \in DOMAIN http :
        (http[s].pc = "have_job" /\ http'[s].pc = "have_job")
            => http'[s].job = http[s].job]_vars

(***************************************************************************)
(* Claims about the poller, checked under SpecPoller and SpecPollerFair.   *)
(***************************************************************************)
\* the step just taken sent Execute for id to the job manager task
ExecuteSent(id) ==
    /\ Len(executor_queue') = Len(executor_queue) + 1
    /\ executor_queue'[Len(executor_queue')] = [op |-> "Execute", id |-> id]

\* the step just taken sent Insert for id to the job tracking task
InsertSent(id) ==
    /\ Len(tracker_queue') = Len(tracker_queue) + 1
    /\ tracker_queue'[Len(tracker_queue')].op = "Insert"
    /\ tracker_queue'[Len(tracker_queue')].id = id

\* Insert for id has been sent: it is in the channel or has been served
InsertEnqueued(id) ==
    \/ id \in DOMAIN jobs
    \/ \E i \in 1..Len(tracker_queue) :
          tracker_queue[i].op = "Insert" /\ tracker_queue[i].id = id

\* C16: for each job of a polled batch in turn the poller sends Insert and
\* then Execute; Execute for an id is sent only once its Insert has been,
\* and the round ends only with the Execute of the last job of the batch.
C16_InsertThenExecute ==
    [][/\ \A id \in JobIds :
             ExecuteSent(id) => (/\ poller.pc = "execute"
                                 /\ id = Head(poller.batch)
                                 /\ InsertEnqueued(id))
       /\ (poller.pc = "insert" /\ poller' # poller)
             => (/\ InsertSent(Head(poller.batch))
                 /\ poller' = [poller EXCEPT !.pc = "execute"])
       /\ (poller.pc = "execute" /\ poller' # poller)
             => (/\ ExecuteSent(Head(poller.batch))
                 /\ IF Len(poller.batch) = 1
                    THEN poller'.pc = "top"
                    ELSE poller' = [poller EXCEPT !.pc = "insert",
                                                  !.batch = Tail(poller.batch)])
      ]_vars

\* the second job of a batch of two has had its Insert sent and waits for
\* its Execute, the first job's Execute sent
C16_Witness ==
    /\ poller.pc = "execute"
    /\ Len(poller.batch) = 1
    /\ InsertEnqueued(Head(poller.batch))
    /\ \E id \in JobIds \ {Head(poller.batch)} :
          /\ InsertEnqueued(id)
          /\ executor_queue = <<[op |-> "Execute", id |-> id]>>

\* C19: a poller that finds the flag cleared at the top of its loop stops
\* there, sending nothing, and stays stopped; once the flag is cleared the
\* poller does stop.
C19_PollerStops ==
    /\ [][/\ (poller.pc = "top" /\ ~running /\ poller' # poller)
                => (/\ poller' = [poller EXCEPT !.pc = "stopped"]
                    /\ tracker_queue' = tracker_queue
                    /\ executor_queue' = executor_queue)
          /\ poller.pc = "stopped" => poller' = poller]_vars
    /\ (~running ~> poller.pc = "stopped")

\* the flag is cleared and the poller has stopped
C19_Witness == ~running /\ poller.pc = "stopped"

(***************************************************************************)
(* Claims about the job lifecycle task, checked under SpecReaper and       *)
(* SpecReaperFair.                                                         *)
(***************************************************************************)
Undrained == {"Running", "Completed", "Stopped"}

CommandSent == reaper.pc = "loop" /\ reaper'.pc = "update"
UpdateSent == reaper.pc # "await_update" /\ reaper'.pc = "await_update"

TimedOut ==
    {id \in DOMAIN jobs :
        /\ jobs[id].status = "Running"
        /\ now - jobs[id].start_time > JobCompletionTimeout}

C18_ExitOnlyWhenDrained ==
    reaper.pc = "exited"
        => \A id \in DOMAIN jobs : jobs[id].status \notin {"Running", "Stopped"}

(***************************************************************************)
(* SpecParse: JobStatus::from_str as a function of its argument.  A &str   *)
(* is the sequence of its chars; the chars of the model are the letters of *)
(* the five names in both cases, a digit, and three chars that             *)
(* str::to_uppercase maps onto letters of the names: U+0131 (dotless i),   *)
(* U+017F (long s) and U+FB01 (the ligature fi, which becomes two chars).  *)
(***************************************************************************)
UpperLetters == {"P", "E", "N", "D", "I", "G", "R", "U", "C", "O", "M", "L",
                 "T", "S", "F", "H"}

\* char::to_ascii_lowercase on the letters of the names
lower(c) ==
    CASE c = "P" -> "p" [] c = "E" -> "e" [] c = "N" -> "n" [] c = "D" -> "d"
      [] c = "I" -> "i" [] c = "G" -> "g" [] c = "R" -> "r" [] c = "U" -> "u"
      [] c = "C" -> "c" [] c = "O" -> "o" [] c = "M" -> "m" [] c = "L" -> "l"
      [] c = "T" -> "t" [] c = "S" -> "s" [] c = "F" -> "f" [] c = "H" -> "h"
      [] OTHER -> c

LowerLetters == {lower(c) : c \in UpperLetters}
AsciiChars == UpperLetters \cup LowerLetters \cup {"1"}
SpecialChars == {"U+0131", "U+017F", "U+FB01"}
Chars == AsciiChars \cup SpecialChars

\* char::to_uppercase: the chars one char becomes
upper(c) ==
    CASE c \in LowerLetters -> <<CHOOSE u \in UpperLetters : lower(u) = c>>
      [] c = "U+0131" -> <<"I">>
      [] c = "U+017F" -> <<"S">>
      [] c = "U+FB01" -> <<"F", "I">>
      [] OTHER -> <<c>>

\* str::to_uppercase
RECURSIVE str_to_uppercase(_)
str_to_uppercase(w) ==
    IF w = <<>> THEN <<>> ELSE upper(Head(w)) \o str_to_uppercase(Tail(w))

\* the five names JobStatus::from_str matches on, and their statuses
NameOf == [Pending   |-> <<"P", "E", "N", "D", "I", "N", "G">>,
           Running   |-> <<"R", "U", "N", "N", "I", "N", "G">>,
           Completed |-> <<"C", "O", "M", "P", "L", "E", "T", "E", "D">>,
           Stopped   |-> <<"S", "T", "O", "P", "P", "E", "D">>,
           Finished  |-> <<"F", "I", "N", "I", "S", "H", "E", "D">>]

\* JobStatus::from_str: s.to_uppercase() matched against the five names
job_status_from_str(w) ==
    IF \E st \in JobStatus : NameOf[st] = str_to_uppercase(w)
    THEN CHOOSE st \in JobStatus : NameOf[st] = str_to_uppercase(w)
    ELSE "Err"

\* the casings of a name: each letter in upper or in lower case
RECURSIVE Casings(_)
Casings(name) ==
    IF name = <<>> THEN {<<>>}
    ELSE {<<c>> \o w : c \in {Head(name), lower(Head(name))},
                       w \in Casings(Tail(name))}

Lowercase(name) == [i \in 1 .. Len(name) |-> lower(name[i])]

\* a name in lower case with one char replaced, one char dropped, or two
\* neighbouring chars replaced by one
Near(name) ==
    LET w == Lowercase(name)
        n == Len(name)
    IN  {[w EXCEPT ![i] = c] : i \in 1 .. n, c \in Chars}
        \cup {SubSeq(w, 1, i - 1) \o SubSeq(w, i + 1, n) : i \in 1 .. n}
        \cup {SubSeq(w, 1, i - 1) \o <<c>> \o SubSeq(w, i + 2, n) :
                 i \in 1 .. n - 1, c \in SpecialChars}

\* the strings the parse is given
ParseInputs ==
    UNION {Casings(NameOf[st]) \cup Near(NameOf[st]) : st \in JobStatus}
    \cup {<<>>}

\* s.parse::<JobStatus>() is called
ParseCall ==
    /\ \E s \in DOMAIN http, w \in ParseInputs :
          /\ http[s].pc = "idle"
          /\ http' = [http EXCEPT
                        ![s] = [Idle EXCEPT
                                  !.pc = "parsed",
                                  !.kind = "PARSE",
                                  !.header = Some(w),
                                  !.hdr_status = job_status_from_str(w)]]
    /\ UNCHANGED <<tvars, evars, running, tracker_cap, lvars, tracker_alive,
                   tracker_queue, executor_queue, poller, got>>

\* the caller has used the result
ParseReturn ==
    /\ \E s \in DOMAIN http :
          /\ http[s].pc = "parsed"
          /\ http' = [http EXCEPT ![s] = Idle]
    /\ UNCHANGED <<tvars, evars, running, tracker_cap, lvars, tracker_alive,
                   tracker_queue, executor_queue, poller, got>>

ParseNext ==
    \/ ParseCall
    \/ ParseReturn

SpecParse == Init /\ [][ParseNext]_vars

(***************************************************************************)
(* SpecManager: the job manager task with its channel.  The poller's       *)
(* Execute and the lifecycle task's Stop and Remove are sent for any id in *)
(* any order, and the Docker daemon answers run in every way, so that      *)
(* containers are left created, running and exited.                        *)
(***************************************************************************)
CleanupCommands == {"Stop", "Remove"}

\* job_executor_tx.send(command).await, with room in the channel
ManagerSend ==
    /\ executor_alive
    /\ Len(executor_queue) < ManagerCap
    /\ \E op \in {"Execute"} \cup CleanupCommands, id \in JobIds :
          executor_queue' = Append(executor_queue, [op |-> op, id |-> id])
    /\ UNCHANGED <<tvars, evars, running, tracker_cap, lvars, tracker_alive,
                   tracker_queue, poller, http, got>>

\* job_manager_task: one command received and handled
ManagerServe ==
    /\ executor_queue # <<>>
    /\ LET c == Head(executor_queue) IN
       CASE c.op = "Execute" -> DoExecute(c.id, RunOutcomes)
         [] c.op = "Stop"    -> DoStop(c.id)
         [] c.op = "Remove"  -> DoRemove(c.id)
    /\ executor_queue' = IF executor_alive' THEN Tail(executor_queue) ELSE <<>>
    /\ UNCHANGED <<tvars, running, tracker_cap, lvars, tracker_alive,
                   tracker_queue, poller, http, got>>

ManagerNext ==
    \/ ManagerSend
    \/ ManagerServe

SpecManager == InitExecutor /\ [][ManagerNext]_vars

(***************************************************************************)
(* SpecLife: the life of one registry entry.  The job lifecycle task, the  *)
(* job tracking task, the job manager task, the clock and the Ctrl-C       *)
(* handler run while Insert commands arrive for the TrackerIds and GET     *)
(* requests arrive for any id.                                             *)
(***************************************************************************)
InitLife ==
    /\ \E st \in [JobIds -> LeftStatuses] :
          /\ \A id \in JobIds \ TrackerIds : st[id] = "absent"
          /\ jobs = Registry(st)
          /\ ever = [id \in JobIds |-> {st[id]} \cap Stamped]
    /\ now = 0
    /\ last = NoCommand
    /\ ExecutorInit
    /\ ReleaseBuild
    /\ AgentInit

LifeNext ==
    \/ ReaperQuery
    \/ ReaperSendCommand
    \/ ReaperSendUpdate
    \/ ReaperAdvance
    \/ TrackerServe
    \/ ExecutorServe
    \/ CtrlC
    \/ Tick /\ UNCHANGED <<evars, avars, lvars>>
    \/ CallInsert
    \/ HttpGet
    \/ HttpGetJob
    \/ HttpSendUpdate
    \/ HttpReply
    \/ HttpClose

SpecLife == InitLife /\ [][LifeNext]_vars

(***************************************************************************)
(* SpecPorts: PortManager as its callers can use it.  PortManager::new is  *)
(* given the default range, whose end is the largest u16, a range of the   *)
(* same size that starts at the default start_port, or the one-port range  *)
(* there; reserve_port and release_port are then called in any order,      *)
(* release_port with any port.                                             *)
(* last_run records the call: its result in path, the port returned or     *)
(* passed in port.                                                         *)
(***************************************************************************)
\* the default start_port of PortManager::new
DefaultStartPort == 49152

\* the (start_port, end_port) pairs PortManager::new is given
PortRanges == {<<StartPort, EndPort>>,
               <<DefaultStartPort, DefaultStartPort + PoolSize - 1>>,
               <<DefaultStartPort, DefaultStartPort>>}

\* the ports release_port is called with: those of the range, the port
\* below it and port 0
ReleasePorts == (start_port .. end_port) \cup {start_port - 1, 0}

\* the results of reserve_port, and of release_port
ReserveResults == {"Ok", "OutOfPorts", "Panic"}
ReleaseResults == {"Released", "CanNotReleaseUnreservedPort"}

\* PortManager::reserve_port is called
PortsReserve ==
    /\ executor_alive
    /\ Cardinality(reserved_ports) <= PoolSize
    /\ LET r == reserve_port(reserved_ports, start_port, end_port,
                             overflow_checks)
       IN /\ reserved_ports' = r.reserved
          /\ executor_alive' = (r.result # "Panic")
          /\ last_run' = [path |-> r.result, port |-> r.port, releases |-> 0]
    /\ port_job' = [q \in reserved_ports' |-> ""]
    /\ UNCHANGED <<start_port, end_port, containers, overflow_checks>>

\* PortManager::release_port(port) is called
PortsRelease ==
    /\ executor_alive
    /\ \E port \in ReleasePorts :
         LET r == release_port(reserved_ports, port)
         IN /\ reserved_ports' = r.reserved
            /\ last_run' = [path |-> IF r.result = "Ok" THEN "Released"
                                     ELSE r.result,
                            port |-> Some(port),
                            releases |-> IF r.result = "Ok" THEN 1 ELSE 0]
    /\ port_job' = [q \in reserved_ports' |-> ""]
    /\ UNCHANGED <<start_port, end_port, containers, executor_alive,
                   overflow_checks>>

InitPorts ==
    /\ TrackerInit
    /\ \E range \in PortRanges : start_port = range[1] /\ end_port = range[2]
    /\ reserved_ports = {}
    /\ port_job = <<>>
    /\ containers = [id \in JobIds |-> NoContainer]
    /\ executor_alive = TRUE
    /\ last_run = NoRun
    /\ (DebugBuild \/ ReleaseBuild)
    /\ AgentInit

PortsNext ==
    \/ PortsReserve /\ UNCHANGED <<tvars, avars, lvars>>
    \/ PortsRelease /\ UNCHANGED <<tvars, avars, lvars>>

SpecPorts == InitPorts /\ [][PortsNext]_vars

(***************************************************************************)
(* Claims about PortManager, checked under SpecPorts.                      *)
(***************************************************************************)
\* the ports of the range, and those of them not reserved
Range == start_port .. end_port
Free == Range \ reserved_ports
Smallest(ports) == CHOOSE p \in ports : \A q \in ports : p <= q

\* a step that is a call of reserve_port, and one of release_port
ReserveStep == last_run'.path \in ReserveResults /\ vars' # vars
ReleaseStep == last_run'.path \in ReleaseResults /\ vars' # vars

\* C22: reserve_port returns the smallest port of the range that is not
\* reserved and marks it reserved; it returns OutOfPorts, changing nothing,
\* exactly when every port of the range is reserved; no port outside the
\* range is ever reserved.
C22_ReserveSmallestFree ==
    /\ [][ReserveStep =>
            IF Free = {}
            THEN /\ last_run'.path = "OutOfPorts"
                 /\ reserved_ports' = reserved_ports
            ELSE /\ last_run'.path = "Ok"
                 /\ last_run'.port = Some(Smallest(Free))
                 /\ reserved_ports' = reserved_ports \cup {Smallest(Free)}]_vars
    /\ [](reserved_ports \subseteq Range)

\* C23: with every port of the range reserved reserve_port fails with
\* OutOfPorts; with all but one reserved (one has been released) it returns
\* that port, and fails with OutOfPorts when called again.
C23_ExhaustedThenOneMore ==
    [][ReserveStep =>
         /\ (Range \subseteq reserved_ports) => last_run'.path = "OutOfPorts"
         /\ (\E p \in Range : Range \ reserved_ports = {p})
              => /\ last_run'.port = Range \ reserved_ports
                 /\ last_run'.path = "Ok"
                 /\ Range \subseteq reserved_ports']_vars

\* C24: release_port(p) for a port that is not reserved returns the
\* not-reserved error and leaves the reserved set as it was; for a reserved
\* port it removes exactly that port.
C24_ReleaseOnlyReserved ==
    [][ReleaseStep =>
         \E p \in last_run'.port :
            IF p \in reserved_ports
            THEN /\ last_run'.path = "Released"
                 /\ reserved_ports' = reserved_ports \ {p}
            ELSE /\ last_run'.path = "CanNotReleaseUnreservedPort"
                 /\ reserved_ports' = reserved_ports]_vars

\* a port of the range that was reserved and released has been released
\* again, with another port still reserved
C24_Witness ==
    /\ last_run.path = "CanNotReleaseUnreservedPort"
    /\ last_run.port \subseteq Range
    /\ reserved_ports # {}

(***************************************************************************)
(* Claims about the life of a registry entry, checked under SpecLife.      *)
(***************************************************************************)
\* C25: no step removes an entry of the registry, and GetJob for an id that
\* has been inserted is answered with a job, Finished jobs included.
C25_EntriesKept ==
    /\ [][\A id \in DOMAIN jobs : id \in DOMAIN jobs']_vars
    /\ [][\A s \in DOMAIN http :
            (/\ http[s].pc = "wait_job"
             /\ http'[s].pc = "have_job"
             /\ http[s].id \in DOMAIN jobs)
               => http'[s].job # None]_vars

\* GetJob has been answered with a job that is Finished
C25_Witness ==
    \E s \in DOMAIN http :
        /\ http[s].pc = "have_job"
        /\ \E job \in http[s].job : job.status = "Finished"

(***************************************************************************)
(* Claims about the job manager task, checked under SpecManager.           *)
(***************************************************************************)
\* the job manager task takes the command at the head of its channel
ManagerStep ==
    /\ executor_queue # <<>>
    /\ Len(executor_queue') < Len(executor_queue)

\* C26: the job manager task outlives every Stop and Remove, whatever the
\* state of the container (stopped already, removed already, never there):
\* it goes on with the commands behind it, and a Stop for a container that
\* is not running changes nothing.
C26_CleanupSurvived ==
    [][(ManagerStep /\ Head(executor_queue).op \in CleanupCommands)
         => LET c == Head(executor_queue) IN
            /\ executor_alive'
            /\ executor_queue' = Tail(executor_queue)
            /\ (c.op = "Stop" /\ containers[c.id].state # "running")
                  => containers' = containers]_vars

\* run left a container running, a Stop has stopped it, and the job manager
\* task, alive, is about to take a second Stop for it with another command
\* behind
C26_Witness ==
    /\ executor_alive
    /\ last_run.path = "stop_err"
    /\ Len(executor_queue) = 2
    /\ executor_queue[1].op = "Stop"
    /\ containers[executor_queue[1].id].state = "exited"
    /\ \A id \in JobIds \ {executor_queue[1].id} :
          containers[id].state = "absent"

(***************************************************************************)
(* Claims about JobStatus::from_str, checked under SpecParse.              *)
(***************************************************************************)
\* the status a string is a casing of the name of, if any
CasingOf(w) ==
    {st \in JobStatus :
        /\ Len(w) = Len(NameOf[st])
        /\ \A i \in 1 .. Len(w) :
              w[i] \in {NameOf[st][i], lower(NameOf[st][i])}}

StoppedAndExpired ==
    {id \in DOMAIN jobs :
        /\ jobs[id].status = "Stopped"
        /\ \E st \in jobs[id].stopped_time : now - st > JobRemovalTimeout}

FailedExecute ==
    /\ ManagerStep
    /\ Head(executor_queue).op = "Execute"
    /\ last_run'.path # "HEALTHY"

\* C32: an Execute that fails leaves the registry and the tracker's channel
\* as they were, and the job manager task goes on with the commands behind it.
C32_FailedExecuteChangesNothing ==
    [][FailedExecute
         => /\ jobs' = jobs
            /\ tracker_queue' = tracker_queue
            /\ executor_alive'
            /\ executor_queue' = Tail(executor_queue)]_vars

(***************************************************************************)
(* Claims about the stopping of every job's container, checked under       *)
(* SpecReaperClock.                                                        *)
(***************************************************************************)
\* the lifecycle task has sent Stop(id) to the executor, and the tracker has
\* not yet served the UpdateStatus that follows
StopSent(id) ==
    /\ reaper.pc \in {"update", "await_update"}
    /\ reaper.cur = id
    /\ phase_command(reaper.phase) = "Stop"

\* C33: for every job in the registry that has not been stopped yet, Pending
\* ones included, the lifecycle task eventually sends Stop to the executor.
C33_EveryContainerStopped ==
    \A id \in JobIds :
       (/\ id \in DOMAIN jobs
        /\ jobs[id].status \in {"Pending", "Running", "Completed"})
          ~> StopSent(id)

(***************************************************************************)
(* SpecShutdown: the poller and the job lifecycle task under a termination *)
(* signal, with the job tracking task and the job manager task.  The       *)
(* registry starts as in SpecLife.                                         *)
(***************************************************************************)
ShutdownNext ==
    \/ PollerTop
    \/ PollerAdmission
    \/ PollerPoll
    \/ PollerSendInsert
    \/ PollerSendExecute
    \/ ReaperQuery
    \/ ReaperSendCommand
    \/ ReaperSendUpdate
    \/ ReaperAdvance
    \/ TrackerServe
    \/ ExecutorServe
    \/ CtrlC

SpecShutdown == InitLife /\ [][ShutdownNext]_vars

\* C34: once the lifecycle task has left its loop, no Insert is sent to the
\* tracker and no Execute is sent to the executor.
C34_NoAdmissionAfterDrain ==
    [][reaper.pc = "exited"
         => \A id \in JobIds : ~InsertSent(id) /\ ~ExecuteSent(id)]_vars

(***************************************************************************)
(* SpecFetch: the poller, the job tracking task, the job manager task and  *)
(* the GET requests of the containers the job manager task starts.  The    *)
(* container "job-<id>" can ask for its job from the moment the job        *)
(* manager task has Execute(id) to run (run starts it and waits for its    *)
(* health check) and for as long as a failed run has left it running.      *)
(* The job tracker channel has room for GetCap commands.                   *)
(***************************************************************************)
ContainerStarted(id) ==
    \/ /\ executor_queue # <<>>
       /\ Head(executor_queue) = [op |-> "Execute", id |-> id]
    \/ containers[id].state = "running"

\* GET /job/:job_id arrives from the container of the job
ContainerGet ==
    \E s \in DOMAIN http, id \in JobIds :
        ContainerStarted(id) /\ HttpStart(s, "GET", id, None, "", 0)

\* job_manager_task: one command received and handled.  During run the
\* Docker daemon answers in one of three ways: the container is healthy and
\* run stops and removes it, stop_and_remove_container fails and leaves it
\* running, or create_container fails (the name is taken)
FetchServe ==
    /\ executor_queue # <<>>
    /\ LET c == Head(executor_queue) IN
       CASE c.op = "Execute" ->
                DoExecute(c.id, {"HEALTHY", "stop_err", "create_err"})
         [] c.op = "Stop"    -> DoStop(c.id)
         [] c.op = "Remove"  -> DoRemove(c.id)
    /\ executor_queue' = IF executor_alive' THEN Tail(executor_queue) ELSE <<>>
    /\ UNCHANGED <<tvars, running, tracker_cap, lvars, tracker_alive,
                   tracker_queue, poller, http, got>>

FetchNext ==
    \/ PollerTop
    \/ PollerAdmission
    \/ PollerPoll
    \/ PollerSendInsert
    \/ PollerSendExecute
    \/ TrackerServe
    \/ FetchServe
    \/ ContainerGet
    \/ HttpGetJob
    \/ HttpSendUpdate
    \/ HttpReply
    \/ HttpClose
    \/ HttpCancel

InitFetch ==
    TrackerInit /\ ExecutorInit /\ ReleaseBuild /\ Agent(MaxRequests, GetCap)

SpecFetch == InitFetch /\ [][FetchNext]_vars

\* C35: a GET of a started container is never answered "not found": its
\* GetJob is in the tracker's channel only behind the Insert of its job or
\* with the job in the registry, and the lookup it gets back has the job.
C35_StartedJobFound ==
    /\ \A i \in 1..Len(tracker_queue) :
          tracker_queue[i].op = "GetJob"
             => \/ tracker_queue[i].id \in DOMAIN jobs
                \/ \E k \in 1..(i - 1) :
                      /\ tracker_queue[k].op = "Insert"
                      /\ tracker_queue[k].id = tracker_queue[i].id
    /\ \A s \in DOMAIN http :
          /\ http[s].pc = "have_job" => http[s].job # None
          /\ http[s].pc = "done" => http[s].code # 404

\* the GetJob of a container's GET waits in the channel behind the Insert of
\* its job, which the tracker has not served yet
C35_Witness ==
    /\ Len(tracker_queue) = 2
    /\ tracker_queue[1].op = "Insert"
    /\ tracker_queue[2].op = "GetJob"
    /\ tracker_queue[2].id = tracker_queue[1].id
    /\ tracker_queue[1].id \notin DOMAIN jobs

(***************************************************************************)
(* SpecTopology: every sender of the two channels with the two tasks that  *)
(* receive from them.  The poller, the job lifecycle task and a GET        *)
(* handler send to the job tracking task and wait for its one-shot         *)
(* replies; the poller and the lifecycle task send to the job manager      *)
(* task.  Each channel has room for one command, so that senders block;    *)
(* polls and requests are for the TrackerIds, and a handler's client can   *)
(* go away.                                                                *)
(* The two receiving tasks are scheduled whenever they have a command, the *)
(* container runtime answering every call of the job manager task; a task  *)
(* whose send finds room again and again gets its command in, since a      *)
(* tokio mpsc channel hands its permits to the waiting senders in order.   *)
(* Polls, requests and their cancellation come from outside.               *)
(***************************************************************************)
\* the poll of the control server returns one job
PollerPollOne == Poll({<<id>> : id \in TrackerIds})

\* GET /job/:job_id arrives for a job the poller is given
TrackedGet ==
    \E s \in DOMAIN http, id \in TrackerIds :
        HttpStart(s, "GET", id, None, "", 0)

TopologyNext ==
    \/ PollerTop
    \/ PollerAdmission
    \/ PollerPollOne
    \/ PollerSendInsert
    \/ PollerSendExecute
    \/ ReaperQuery
    \/ ReaperSendCommand
    \/ ReaperSendUpdate
    \/ ReaperAdvance
    \/ TrackerServe
    \/ ExecutorServe
    \/ TrackedGet
    \/ HttpGetJob
    \/ HttpSendUpdate
    \/ HttpReply
    \/ HttpClose
    \/ HttpCancel

\* the sends of the poller and of the lifecycle task
PollerSends == PollerTop \/ PollerSendInsert \/ PollerSendExecute
ReaperSends == ReaperQuery \/ ReaperSendCommand \/ ReaperSendUpdate

SpecTopology ==
    /\ InitLife
    /\ [][TopologyNext]_vars
    /\ WF_vars(TrackerServe)
    /\ WF_vars(ExecutorServe)
    /\ SF_vars(PollerSends)
    /\ SF_vars(ReaperSends)
    /\ SF_vars(HttpSendUpdate)

\* a task is at a send to the job tracker channel or the job executor channel
PollerSending == poller.pc \in {"insert", "execute"}
ReaperSending ==
    \/ reaper.pc \in {"query", "update"}
    \/ reaper.pc = "loop" /\ reaper.todo # {}
HandlerSending(s) == http[s].pc = "send_update"

\* a task is waiting for the one-shot reply to a command it has sent
PollerAwaiting == poller.pc = "await_count"
ReaperAwaiting == reaper.pc \in {"await_ids", "await_update"}
HandlerAwaiting(s) == http[s].pc \in {"wait_job", "wait_update"}

\* C36: no task stays at a send or at the wait for a one-shot reply: each
\* send of the poller, of the lifecycle task and of a handler completes, and
\* each reply they wait for arrives, whatever the others do.
C36_NoDeadlock ==
    /\ PollerSending ~> ~PollerSending
    /\ PollerAwaiting ~> ~PollerAwaiting
    /\ ReaperSending ~> ~ReaperSending
    /\ ReaperAwaiting ~> ~ReaperAwaiting
    /\ \A s \in 1..MaxRequests :
          /\ HandlerSending(s) ~> ~HandlerSending(s)
          /\ HandlerAwaiting(s) ~> ~HandlerAwaiting(s)

\* both channels are full: the poller is at its send of Execute, the
\* lifecycle task at a send to the tracker, and a handler waits for a reply
C36_Witness ==
    /\ tracker_alive
    /\ Len(tracker_queue) = tracker_cap
    /\ Len(executor_queue) = ExecutorCap
    /\ poller.pc = "execute"
    /\ reaper.pc \in {"query", "update"}
    /\ \E s \in DOMAIN http : http[s].pc = "wait_job"

(***************************************************************************)
(* Claims about the job tracking task and its requesters, checked under    *)
(* SpecHttp.                                                               *)
(***************************************************************************)
\* the job tracking task takes a command whose requester has gone away
ServesAbandoned ==
    /\ tracker_alive
    /\ tracker_queue # <<>>
    /\ Head(tracker_queue).dropped
    /\ Len(tracker_queue') < Len(tracker_queue)

\* C37: the job tracking task outlives a command whose requester no longer
\* waits for the reply: it applies the command and goes on with the commands
\* behind it.
C37_TrackerOutlivesRequesters ==
    [][ServesAbandoned
         => LET c == Head(tracker_queue) IN
            /\ tracker_alive'
            /\ tracker_queue' = Tail(tracker_queue)
            /\ c.op = "UpdateStatus"
                  => jobs' = update_status(jobs, c.id, c.status,
                                           c.progress, now)]_vars

(***************************************************************************)
(* Claims about stopped_time, checked under SpecTracker.                   *)
(***************************************************************************)
\* C38: a job whose status is Stopped has stopped_time set, so that the
\* unwrap of stopped_time in get_stopped_and_expired_job_ids cannot fail.
C38_StoppedHasStoppedTime ==
    \A id \in DOMAIN jobs :
        jobs[id].status = "Stopped" => jobs[id].stopped_time # None

\* a PUT has written the job's progress, the job is Stopped and the tracker
\* has just served the UpdateStatus that stopped it
C38_Witness ==
    /\ last.op = "UpdateStatus"
    /\ last.status = "Stopped"
    /\ last.id \in DOMAIN jobs
    /\ jobs[last.id].status = "Stopped"
    /\ jobs[last.id].progress = MaxProgress
    /\ jobs[last.id].stopped_time = Some(now)

(***************************************************************************)
(* Claims about the scan of reserve_port, checked under SpecPorts.         *)
(***************************************************************************)
\* C39: a call of reserve_port never overflows the u16 candidate port and
\* never returns a port from outside the range; with every port of the
\* range reserved, the range ending at 65535 included, it returns
\* OutOfPorts.
C39_ScanWithinRange ==
    [][ReserveStep
         => /\ last_run'.path # "Panic"
            /\ \A p \in last_run'.port : p \in Range
            /\ Range \subseteq reserved_ports
                  => last_run'.path = "OutOfPorts"]_vars

====
